---- MODULE Spec2Model ----
(***************************************************************************)
(* Model of the qBittorrent tracker URL rewriter: one pass of runOnce      *)
(* (index.js) over the QbtClient (lib/QbtClient.js).                       *)
(*                                                                         *)
(* Strings are sequences of one-character strings, so that the scheme      *)
(* test, toLowerCase and String.prototype.replace are computed, not        *)
(* assumed.  A missing (undefined or '') option is the empty sequence.     *)
(***************************************************************************)
EXTENDS Integers, Sequences, FiniteSets, TLC

VARIABLES args, pc, cookie, torrents, ti, trackers, tri,
          totalChecked, totalChanged, calls, out, ret, remote, preview,
          main, argv, env, masked

\* the state of main, of parseArgs and of the debug output around a run
driver == <<main, argv, env, masked>>

vars == <<args, pc, cookie, torrents, ti, trackers, tri,
          totalChecked, totalChanged, calls, out, ret, remote, preview,
          main, argv, env, masked>>

\* ------------------------------------------------------------------ bounds
MaxTorrents == 2
MaxTrackers == 2
MaxHashes == 2
MaxHeaderLen == 4
MaxIntervalLen == 3
MaxSecretLen == 4
MaxArgv == 3
MaxCliArgv == 2

\* ----------------------------------------------------------------- strings
Empty == <<>>

UpperToLower ==
  [c \in {"A", "B", "C", "H", "N", "O", "P", "S", "T"} |->
     CASE c = "A" -> "a" [] c = "B" -> "b" [] c = "C" -> "c"
       [] c = "H" -> "h" [] c = "N" -> "n" [] c = "O" -> "o"
       [] c = "P" -> "p" [] c = "S" -> "s" [] c = "T" -> "t"]

\* String.prototype.toLowerCase
toLowerCase(s) ==
  [i \in 1..Len(s) |-> IF s[i] \in DOMAIN UpperToLower THEN UpperToLower[s[i]] ELSE s[i]]

startsWith(s, p) ==
  /\ Len(s) >= Len(p)
  /\ \A i \in 1..Len(p) : s[i] = p[i]

\* IsHttpUrl without the scheme test
IsHttpUrl_NoSchemeTest(origUrl) == origUrl # Empty

\* /^https?:\/\//i.test(origUrl), with the !origUrl guard in front of it
IsHttpUrl(origUrl) ==
  /\ origUrl # Empty
  /\ \/ startsWith(toLowerCase(origUrl), <<"h", "t", "t", "p", ":", "/", "/">>)
     \/ startsWith(toLowerCase(origUrl), <<"h", "t", "t", "p", "s", ":", "/", "/">>)

\* The patterns of the model are literal characters, the wildcard ".", the
\* escaped dot "\\." and an unbalanced "(" (the invalid pattern of the tests).
RegExpCompiles(pattern) == \A i \in 1..Len(pattern) : pattern[i] # "("

MatchesAt(s, pattern) ==
  /\ Len(s) >= Len(pattern)
  /\ \A i \in 1..Len(pattern) :
       \/ pattern[i] = "."
       \/ pattern[i] = "\\." /\ s[i] = "."
       \/ pattern[i] \notin {".", "\\."} /\ pattern[i] = s[i]

RECURSIVE replace(_, _, _)
\* origUrl.replace(regex, replacement) with the "g" flag: every
\* non-overlapping match, left to right (the empty pattern matches before
\* every character and at the end)
replace(s, pattern, replacement) ==
  IF pattern = Empty
  THEN IF s = Empty THEN replacement
       ELSE replacement \o <<Head(s)>> \o replace(Tail(s), pattern, replacement)
  ELSE IF s = Empty THEN Empty
  ELSE IF MatchesAt(s, pattern)
       THEN replacement \o replace(SubSeq(s, Len(pattern) + 1, Len(s)), pattern, replacement)
       ELSE <<Head(s)>> \o replace(Tail(s), pattern, replacement)

\* -------------------------------------------------------------- input sets
RECURSIVE SeqsUpTo(_, _)
SeqsUpTo(S, n) ==
  IF n = 0 THEN {<<>>}
  ELSE LET shorter == SeqsUpTo(S, n - 1)
       IN  shorter \cup {Append(q, x) : q \in {r \in shorter : Len(r) = n - 1}, x \in S}

Urls ==
  { <<"h", "t", "t", "p", ":", "/", "/", "a">>,
    <<"H", "T", "T", "P", "S", ":", "/", "/", "b">>,
    <<"u", "d", "p", ":", "/", "/", "a">>,
    Empty }

Patterns == { Empty, <<"(">>, <<"a">> }
Replacements == { Empty, <<"b">> }
Present == { Empty, <<"x">> }

RequestedHashes == { <<"a">>, <<"B">> }
TorrentHashes == { <<"A">>, <<"b">>, <<"c">> }

ArgsSet ==
  [ help : BOOLEAN, baseUrl : Present, username : Present, password : Present,
    pattern : Patterns, replacement : Replacements, dryRun : BOOLEAN,
    hash : SeqsUpTo(RequestedHashes, MaxHashes) ]

\* --------------------------------------------------------- remote replies
\* res.status of a response that is not res.ok: a rejected session or any
\* other error
FailureStatuses == { 401, 500 }

\* res.headers.get('set-cookie') || '': a header is a sequence of tokens (a
\* cookie name, "=", a value, ";"); no header is the empty sequence.
SidHeader == <<"SID", "=", "x", ";">>
SessHeader == <<"qbittorrent_sess", "=", "y", ";">>

LoginResponses ==
  { [ok |-> FALSE, status |-> s, setCookie |-> Empty] : s \in FailureStatuses } \cup
  { [ok |-> TRUE, status |-> 200, setCookie |-> h] : h \in {SidHeader, SessHeader, Empty} }

\* the headers a login answer is tried with on its own
SetCookieHeaders == SeqsUpTo({"SID", "qbittorrent_sess", "=", "x", ";"}, MaxHeaderLen)

LoginHeaderResponses ==
  { [ok |-> FALSE, status |-> s, setCookie |-> Empty] : s \in FailureStatuses } \cup
  { [ok |-> TRUE, status |-> 200, setCookie |-> h] : h \in SetCookieHeaders }

\* a cookie already held by the caller of qbtLogin
HeldCookies == { Empty, <<"SID", "=", "old">> }

TorrentLists == SeqsUpTo({ [hash |-> h] : h \in TorrentHashes }, MaxTorrents)
TorrentsResponses ==
  { [ok |-> FALSE, status |-> s, data |-> <<>>] : s \in FailureStatuses } \cup
  { [ok |-> TRUE, status |-> 200, data |-> l] : l \in TorrentLists }

TrackerLists == SeqsUpTo({ [url |-> u] : u \in Urls }, MaxTrackers)
TrackersResponses ==
  { [ok |-> FALSE, status |-> s, data |-> <<>>] : s \in FailureStatuses } \cup
  { [ok |-> TRUE, status |-> 200, data |-> l] : l \in TrackerLists }

EditResponses ==
  { [ok |-> FALSE, status |-> s] : s \in FailureStatuses } \cup { [ok |-> TRUE, status |-> 200] }

\* A request as the remote end sees it, with the status it answered, whether
\* the client method returned (ok) and how many items the answer listed.
\* CookieHeader with no cookie attached to the request
CookieHeader_Dropped == Empty

\* headers: {Cookie: this.cookie || ''}
CookieHeader == cookie

Call(op, hash, origUrl, newUrl, ok, count, status) ==
  [op |-> op, hash |-> hash, origUrl |-> origUrl, newUrl |-> newUrl,
   ok |-> ok, count |-> count, status |-> status, cookie |-> CookieHeader]

Line(msg, checked, changed, label) ==
  [msg |-> msg, checked |-> checked, changed |-> changed, label |-> label]

\* The remote end answers each request as it likes; when remote.record is
\* set it keeps answering a repeated request as it did the first time.
LoginReplies == IF remote.login # <<>> THEN {remote.login[1]} ELSE LoginResponses
TorrentsReplies == IF remote.list # <<>> THEN {remote.list[1]} ELSE TorrentsResponses
TrackersReplies(i) ==
  IF i <= Len(remote.trackers) THEN {remote.trackers[i]} ELSE TrackersResponses

Recorded(field, reply) ==
  IF remote.record THEN [remote EXCEPT ![field] = <<reply>>] ELSE remote

RecordedTrackers(i, reply) ==
  IF remote.record /\ i = Len(remote.trackers) + 1
  THEN [remote EXCEPT !.trackers = Append(@, reply)]
  ELSE remote

LiveRemote == [record |-> FALSE, login |-> <<>>, list |-> <<>>, trackers |-> <<>>]

\* ------------------------------------------------------------ JS values
\* The values parseArgs, main and maskSecret handle: undefined, null, the
\* booleans and strings (a string is its sequence of characters).
Undefined == [t |-> "undefined", s |-> <<>>]
Null == [t |-> "null", s |-> <<>>]
True == [t |-> "boolean", s |-> <<"t", "r", "u", "e">>]
False == [t |-> "boolean", s |-> <<"f", "a", "l", "s", "e">>]
Str(s) == [t |-> "string", s |-> s]

\* ToBoolean: what `!v` and `v || w` test
Truthy(v) == v = True \/ (v.t = "string" /\ v.s # <<>>)

\* v == null
IsNullish(v) == v = Undefined \/ v = Null

\* String(v)
String(v) ==
  CASE v.t = "undefined" -> <<"u", "n", "d", "e", "f", "i", "n", "e", "d">>
    [] v.t = "null" -> <<"n", "u", "l", "l">>
    [] OTHER -> v.s

EnvNames == {"QBT_BASE_URL", "QBT_USERNAME", "QBT_PASSWORD", "QBT_PATTERN", "QBT_REPLACEMENT",
             "QBT_LOOP", "LOOP", "QBT_LOOP_INTERVAL", "LOOP_INTERVAL", "QBT_DEBUG", "DEBUG"}

NoEnv == [n \in EnvNames |-> Undefined]

\* runOnce called on its own, as the tests and library consumers call it
NoDriver ==
  /\ main = [pc |-> "run", loop |-> False, interval |-> Undefined, intervalSec |-> 0]
  /\ argv = <<>>
  /\ env = NoEnv
  /\ masked = <<>>

\* ------------------------------------------------------------------- Init
Init ==
  /\ args \in ArgsSet
  /\ pc = "validate"
  /\ cookie = Empty
  /\ torrents = <<>>
  /\ ti = 1
  /\ trackers = <<>>
  /\ tri = 1
  /\ totalChecked = 0
  /\ totalChanged = 0
  /\ calls = <<>>
  /\ out = <<>>
  /\ ret = <<>>
  /\ remote = LiveRemote
  /\ preview = <<>>
  /\ NoDriver

\* ------------------------------------------------------------ runOnce
Return(code, msg) ==
  /\ pc' = "done"
  /\ ret' = <<code>>
  /\ out' = Append(out, Line(msg, totalChecked, totalChanged, "-"))

\* missing without the replacement among the required options
missing_WithoutReplacement ==
  { k \in {"baseUrl", "username", "password", "pattern"} : args[k] = Empty }

missing == { k \in {"baseUrl", "username", "password", "pattern", "replacement"} : args[k] = Empty }

\* index.js 178-216: help, required options, regex compilation
Validate ==
  /\ pc = "validate"
  /\ IF args.help THEN Return(0, "help")
     ELSE IF missing # {} THEN Return(2, "missing")
     ELSE IF ~RegExpCompiles(args.pattern) THEN Return(2, "invalid-regex")
     ELSE /\ pc' = "login"
          /\ UNCHANGED <<ret, out>>
  /\ UNCHANGED <<args, cookie, torrents, ti, trackers, tri,
                 totalChecked, totalChanged, calls, remote, preview, driver>>

Min(S) == CHOOSE x \in S : \A y \in S : x <= y

\* /(names)=([^;]+);/.exec(setCookie): the leftmost name followed by "=",
\* at least one token that is not ";", and then a ";"
exec(setCookie, names) ==
  LET Ends(i) == { j \in (i + 2)..Len(setCookie) : setCookie[j] = ";" }
      Hits == { i \in 1..Len(setCookie) :
                  /\ i + 1 <= Len(setCookie)
                  /\ setCookie[i] \in names
                  /\ setCookie[i + 1] = "="
                  /\ Ends(i) # {}
                  /\ Min(Ends(i)) > i + 2 }
  IN  IF Hits = {}
      THEN [matched |-> FALSE, name |-> "", value |-> <<>>]
      ELSE [matched |-> TRUE, name |-> setCookie[Min(Hits)],
            value |-> SubSeq(setCookie, Min(Hits) + 2, Min(Ends(Min(Hits))) - 1)]

\* QbtClient.login 49-68: the cookie kept after a 2xx response
LoginCookie(res) ==
  LET m == exec(res.setCookie, {"SID"})
      m2 == exec(res.setCookie, {"SID", "qbittorrent_sess"})
  IN  IF m.matched THEN <<"SID", "=">> \o m.value
      ELSE IF m2.matched THEN <<m2.name, "=">> \o m2.value
      ELSE cookie

\* QbtClient.login throws on a non-2xx response, and on a 2xx response
\* without a session cookie when the client holds none
LoginThrows(res) ==
  \/ ~res.ok
  \/ /\ ~exec(res.setCookie, {"SID"}).matched
     /\ ~exec(res.setCookie, {"SID", "qbittorrent_sess"}).matched
     /\ cookie = Empty

\* LoginFailed with a catch that logs and goes on
LoginFailed_Continues ==
  /\ pc' = "list"
  /\ UNCHANGED <<cookie, ret, out>>

\* index.js 224-227: catch of the login try
LoginFailed ==
  /\ Return(1, "login-error")
  /\ UNCHANGED cookie

\* index.js 218-227
Login ==
  /\ pc = "login"
  /\ \E res \in LoginReplies :
       /\ calls' = Append(calls, Call("login", Empty, Empty, Empty, ~LoginThrows(res), 0, res.status))
       /\ remote' = Recorded("login", res)
       /\ IF LoginThrows(res)
          THEN LoginFailed
          ELSE /\ cookie' = LoginCookie(res)
               /\ pc' = "list"
               /\ UNCHANGED <<ret, out>>
  /\ UNCHANGED <<args, torrents, ti, trackers, tri, totalChecked, totalChanged, preview, driver>>

RECURSIVE filter(_, _)
\* torrents.filter(t => set.has((t.hash || '').toLowerCase()))
filter(list, set) ==
  IF list = <<>> THEN <<>>
  ELSE IF toLowerCase(Head(list).hash) \in set
       THEN <<Head(list)>> \o filter(Tail(list), set)
       ELSE filter(Tail(list), set)

\* HashFilter without the manual filter
HashFilter_Unfiltered(list) == list

\* index.js 232-237: the manual filter when several hashes are requested
\* HashFilter that returns the torrents in the reverse of the remote's order
HashFilter_Reversed(list) == [i \in 1..Len(list) |-> list[Len(list) + 1 - i]]

HashFilter(list) ==
  IF Len(args.hash) > 1
  THEN filter(list, { toLowerCase(args.hash[i]) : i \in 1..Len(args.hash) })
  ELSE list

\* index.js 238-241: catch of the listing try
ListFailed ==
  /\ Return(1, "torrents-error")
  /\ UNCHANGED torrents

\* NothingToDo without the early return
NothingToDo_FallsThrough ==
  /\ pc' = "torrent"
  /\ UNCHANGED <<ret, out>>

\* index.js 243-246: nothing left after the filters
NothingToDo == Return(0, "nothing-to-do")

\* index.js 229-248
ListTorrents ==
  /\ pc = "list"
  /\ \E res \in TorrentsReplies :
       /\ calls' = Append(calls, Call("torrents", Empty, Empty, Empty, res.ok, Len(res.data), res.status))
       /\ remote' = Recorded("list", res)
       /\ IF ~res.ok
          THEN ListFailed
          ELSE /\ torrents' = HashFilter(res.data)
               /\ IF torrents' = <<>>
                  THEN NothingToDo
                  ELSE /\ pc' = "torrent"
                       /\ UNCHANGED <<ret, out>>
  /\ UNCHANGED <<args, cookie, ti, trackers, tri, totalChecked, totalChanged, preview, driver>>

\* TrackersFailed with a catch that ends the run
TrackersFailed_Aborts ==
  /\ Return(1, "trackers-error")
  /\ UNCHANGED <<ti, trackers, tri>>

\* TrackersFailed with the fetch of the same torrent issued again
TrackersFailed_Retries == UNCHANGED <<ti, pc, trackers, tri, ret, out>>

\* index.js 254-257: catch of the tracker fetch, on to the next torrent
TrackersFailed ==
  /\ ti' = ti + 1
  /\ UNCHANGED <<pc, trackers, tri, ret, out>>

\* index.js 250-257: the next torrent of the for-of loop and its trackers
GetTrackers ==
  /\ pc = "torrent"
  /\ ti <= Len(torrents)
  /\ \E res \in TrackersReplies(ti) :
       /\ calls' = Append(calls, Call("trackers", torrents[ti].hash, Empty, Empty, res.ok, 0, res.status))
       /\ remote' = RecordedTrackers(ti, res)
       /\ IF ~res.ok
          THEN TrackersFailed
          ELSE /\ trackers' = res.data
               /\ tri' = 1
               /\ pc' = "tracker"
               /\ UNCHANGED <<ti, ret, out>>
  /\ UNCHANGED <<args, cookie, torrents, totalChecked, totalChanged, preview, driver>>

\* index.js 259-265: an empty or non-HTTP(S) URL is skipped
SkipTracker ==
  /\ pc = "tracker"
  /\ tri <= Len(trackers)
  /\ ~IsHttpUrl(trackers[tri].url)
  /\ tri' = tri + 1
  /\ UNCHANGED <<args, pc, cookie, torrents, ti, trackers,
                 totalChecked, totalChanged, calls, out, ret, remote, preview, driver>>

\* ShouldEdit without the dry-run test
ShouldEdit_IgnoresDryRun(origUrl, newUrl) == newUrl # origUrl

\* ShouldEdit without the comparison of the rewrite with the original
ShouldEdit_Unconditional(origUrl, newUrl) == ~args.dryRun

\* index.js 269-273: a changed URL is edited unless dry-run
ShouldEdit(origUrl, newUrl) == newUrl # origUrl /\ ~args.dryRun

\* index.js 276-278: the edit went through
EditSucceeded ==
  /\ totalChanged' = totalChanged + 1
  /\ tri' = tri + 1
  /\ UNCHANGED <<pc, ret, out>>

\* EditFailed with the counter incremented after the try
EditFailed_Counted ==
  /\ totalChanged' = totalChanged + 1
  /\ tri' = tri + 1
  /\ UNCHANGED <<pc, ret, out>>

\* EditFailed with the error leaving the loops
EditFailed_Aborts ==
  /\ Return(1, "edit-error")
  /\ UNCHANGED <<totalChanged, tri>>

\* EditFailed with the edit of the same tracker issued again
EditFailed_Retries == UNCHANGED <<tri, totalChanged, pc, ret, out>>

\* index.js 279-281: catch of the edit try
EditFailed ==
  /\ tri' = tri + 1
  /\ UNCHANGED <<totalChanged, pc, ret, out>>

\* index.js 266-285: rewrite, count, and edit
CheckTracker ==
  /\ pc = "tracker"
  /\ tri <= Len(trackers)
  /\ IsHttpUrl(trackers[tri].url)
  /\ LET origUrl == trackers[tri].url
         newUrl == replace(origUrl, args.pattern, args.replacement)
     IN  /\ totalChecked' = totalChecked + 1
         /\ IF ShouldEdit(origUrl, newUrl)
            THEN \E res \in EditResponses :
                   /\ calls' = Append(calls, Call("editTracker", torrents[ti].hash, origUrl, newUrl, res.ok, 0, res.status))
                   /\ IF res.ok THEN EditSucceeded ELSE EditFailed
            ELSE /\ tri' = tri + 1
                 /\ UNCHANGED <<calls, totalChanged, pc, ret, out>>
  /\ UNCHANGED <<args, cookie, torrents, ti, trackers, remote, preview, driver>>

\* index.js 259, 287: the tracker loop is exhausted, on to the next torrent
EndTorrent ==
  /\ pc = "tracker"
  /\ tri > Len(trackers)
  /\ ti' = ti + 1
  /\ pc' = "torrent"
  /\ UNCHANGED <<args, cookie, torrents, trackers, tri,
                 totalChecked, totalChanged, calls, out, ret, remote, preview, driver>>

\* index.js 289-291
Report ==
  /\ pc = "torrent"
  /\ ti > Len(torrents)
  /\ pc' = "done"
  /\ ret' = <<0>>
  /\ out' = Append(out, Line("summary", totalChecked, totalChanged,
                             IF args.dryRun THEN "Would change" ELSE "Changed"))
  /\ UNCHANGED <<args, cookie, torrents, ti, trackers, tri,
                 totalChecked, totalChanged, calls, remote, preview, driver>>

Next ==
  \/ Validate
  \/ Login
  \/ ListTorrents
  \/ GetTrackers
  \/ SkipTracker
  \/ CheckTracker
  \/ EndTorrent
  \/ Report

Spec == Init /\ [][Next]_vars

\* Every step of runOnce is a continuation of an awaited promise or plain
\* synchronous code: once enabled it runs.
FairSpec == Spec /\ WF_vars(Next)

\* ------------------------------------------- a preview followed by a run
\* The same configuration is run twice against a remote end that answers
\* the second run as it answered the first: first with --dry-run, then
\* without it.
InitPreviewApply ==
  /\ args \in { a \in ArgsSet : a.dryRun }
  /\ pc = "validate"
  /\ cookie = Empty
  /\ torrents = <<>>
  /\ ti = 1
  /\ trackers = <<>>
  /\ tri = 1
  /\ totalChecked = 0
  /\ totalChanged = 0
  /\ calls = <<>>
  /\ out = <<>>
  /\ ret = <<>>
  /\ remote = [LiveRemote EXCEPT !.record = TRUE]
  /\ preview = <<>>
  /\ NoDriver

\* index.js 314-317: the process is started again, now without --dry-run
ApplyAfterPreview ==
  /\ pc = "done"
  /\ args.dryRun
  /\ preview = <<>>
  /\ preview' = <<out[Len(out)]>>
  /\ args' = [args EXCEPT !.dryRun = FALSE]
  /\ pc' = "validate"
  /\ cookie' = Empty
  /\ torrents' = <<>>
  /\ ti' = 1
  /\ trackers' = <<>>
  /\ tri' = 1
  /\ totalChecked' = 0
  /\ totalChanged' = 0
  /\ calls' = <<>>
  /\ out' = <<>>
  /\ ret' = <<>>
  /\ UNCHANGED <<remote, driver>>

NextPreviewApply == Next \/ ApplyAfterPreview

SpecPreviewApply == InitPreviewApply /\ [][NextPreviewApply]_vars

\* ------------------------------------ a run against a recording remote
\* The run of Spec, the remote end keeping every answer it gave.
InitRecorded ==
  /\ args \in ArgsSet
  /\ pc = "validate"
  /\ cookie = Empty
  /\ torrents = <<>>
  /\ ti = 1
  /\ trackers = <<>>
  /\ tri = 1
  /\ totalChecked = 0
  /\ totalChanged = 0
  /\ calls = <<>>
  /\ out = <<>>
  /\ ret = <<>>
  /\ remote = [LiveRemote EXCEPT !.record = TRUE]
  /\ preview = <<>>
  /\ NoDriver

SpecRecorded == InitRecorded /\ [][Next]_vars

\* ------------------------------------------------- qbtLogin on its own
\* index.js 147-152: a client is given the cookie of the jar, logs in, and
\* the jar takes the client's cookie (the jar keeps its cookie when login
\* throws)
qbtLogin ==
  /\ pc = "qbtLogin"
  /\ \E res \in LoginReplies :
       /\ calls' = Append(calls, Call("login", Empty, Empty, Empty, ~LoginThrows(res), 0, res.status))
       /\ cookie' = IF LoginThrows(res) THEN cookie ELSE LoginCookie(res)
  /\ pc' = "done"
  /\ UNCHANGED <<args, torrents, ti, trackers, tri, totalChecked, totalChanged,
                 out, ret, remote, preview, driver>>

InitLogin ==
  /\ args \in { a \in ArgsSet : ~a.help /\ ~a.dryRun /\ a.hash = <<>>
                                /\ \A k \in {"baseUrl", "username", "password", "pattern", "replacement"} :
                                     a[k] # Empty /\ a[k] # <<"(">> }
  /\ pc = "qbtLogin"
  /\ cookie \in HeldCookies
  /\ torrents = <<>>
  /\ ti = 1
  /\ trackers = <<>>
  /\ tri = 1
  /\ totalChecked = 0
  /\ totalChanged = 0
  /\ calls = <<>>
  /\ out = <<>>
  /\ ret = <<>>
  /\ remote \in { [LiveRemote EXCEPT !.login = <<res>>] : res \in LoginHeaderResponses }
  /\ preview = <<>>
  /\ NoDriver

SpecLogin == InitLogin /\ [][qbtLogin]_vars

\* ------------------------------------------------------------ parseArgs
\* An element of process.argv is a sequence of pieces: an option is "--"
\* followed by its name, a value is its characters.
Option(name) == <<"--", name>>

OptionNames == {"baseUrl", "username", "password", "pattern", "replacement",
                "loop", "interval", "debug", "dry-run"}

Keys == {"baseUrl", "username", "password", "pattern", "replacement",
         "loop", "interval", "debug", "dryRun"}

ArgvTokens == { Option(n) : n \in OptionNames } \cup { <<"v">>, <<>> }

ArgvSet == SeqsUpTo(ArgvTokens, MaxArgv)

\* process.env: every variable is unset or holds one value; the five
\* required variables are set together (each to its own name) or not at all
EnvSet ==
  { [n \in EnvNames |->
       CASE n = "QBT_LOOP" -> qbtLoop
         [] n = "LOOP" -> loop
         [] n = "QBT_LOOP_INTERVAL" -> qbtInterval
         [] n = "LOOP_INTERVAL" -> interval
         [] n = "QBT_DEBUG" -> qbtDebug
         [] n = "DEBUG" -> debug
         [] OTHER -> IF required THEN Str(<<n>>) ELSE Undefined] :
      required \in BOOLEAN,
      qbtLoop \in { Undefined, Str(<<"y", "e", "s">>), Str(<<"n", "o">>) },
      loop \in { Undefined, Str(<<"1">>) },
      qbtInterval \in { Undefined, Str(<<"3", "0">>) },
      interval \in { Undefined, Str(<<"2", "0">>) },
      qbtDebug \in { Undefined, Str(<<" ", "O", "N">>) },
      debug \in { Undefined, Str(<<"0">>) } }

\* a || b with the operands the other way round
Or_RightFirst(a, b) == IF Truthy(b) THEN b ELSE a

\* a || b
Or(a, b) == IF Truthy(a) THEN a ELSE b

\* String.prototype.trim
RECURSIVE trim(_)
trim(s) ==
  IF s = <<>> THEN s
  ELSE IF Head(s) = " " THEN trim(Tail(s))
  ELSE IF s[Len(s)] = " " THEN trim(SubSeq(s, 1, Len(s) - 1))
  ELSE s

\* ['1', 'true', 'yes', 'on'].includes(v.toLowerCase())
IsOn(v) ==
  IF toLowerCase(v) \in {<<"1">>, <<"t", "r", "u", "e">>, <<"y", "e", "s">>, <<"o", "n">>}
  THEN True ELSE False

\* index.js 53-80: the loop over process.argv from index 2
RECURSIVE parseArgv(_, _, _)
parseArgv(av, i, a) ==
  IF i > Len(av) THEN a
  ELSE LET key == IF Len(av[i]) > 1 THEN av[i][2] ELSE ""
           next == IF i + 1 <= Len(av) THEN Str(av[i + 1]) ELSE Undefined
       IN  IF av[i] # <<>> /\ startsWith(av[i], <<"--">>)
           THEN IF av[i] = Option("dry-run") THEN parseArgv(av, i + 1, [a EXCEPT !["dryRun"] = True])
                ELSE IF av[i] = Option("debug") THEN parseArgv(av, i + 1, [a EXCEPT !["debug"] = True])
                ELSE IF av[i] = Option("loop") THEN parseArgv(av, i + 1, [a EXCEPT !["loop"] = True])
                ELSE IF Truthy(next) /\ ~startsWith(String(next), <<"--">>)
                     THEN parseArgv(av, i + 2, [a EXCEPT ![key] = next])
                     ELSE parseArgv(av, i + 1, [a EXCEPT ![key] = True])
           ELSE parseArgv(av, i + 1, a)

\* index.js 88-91, 93-96, 98-103: (process.env.A || process.env.B || '').toString().trim()
envOf(e, a, b) == trim(String(Or(Or(e[a], e[b]), Str(<<>>))))

\* index.js 50-106
parseArgs(av, e) ==
  LET a == parseArgv(av, 1, [k \in Keys |-> Undefined])
      envLoop == envOf(e, "QBT_LOOP", "LOOP")
      envInt == envOf(e, "QBT_LOOP_INTERVAL", "LOOP_INTERVAL")
      envDebug == envOf(e, "QBT_DEBUG", "DEBUG")
  IN  [a EXCEPT !["baseUrl"] = Or(@, e["QBT_BASE_URL"]),
                !["username"] = Or(@, e["QBT_USERNAME"]),
                !["password"] = Or(@, e["QBT_PASSWORD"]),
                !["pattern"] = Or(@, e["QBT_PATTERN"]),
                !["replacement"] = Or(@, e["QBT_REPLACEMENT"]),
                !["loop"] = IF IsNullish(@) /\ envLoop # <<>> THEN IsOn(envLoop) ELSE @,
                !["interval"] = IF IsNullish(@) /\ envInt # <<>> THEN Str(envInt) ELSE @,
                !["debug"] = IF IsNullish(@) /\ envDebug # <<>> THEN IsOn(envDebug) ELSE @]

\* index.js 300: const args = parseArgs()
ParseArgs ==
  /\ main.pc = "parseArgs"
  /\ args' = parseArgs(argv, env)
  /\ main' = [main EXCEPT !.pc = "main", !.loop = args'["loop"], !.interval = args'["interval"]]
  /\ UNCHANGED <<pc, cookie, torrents, ti, trackers, tri, totalChecked, totalChanged,
                 calls, out, ret, remote, preview, argv, env, masked>>

InitParse ==
  /\ args = [k \in Keys |-> Undefined]
  /\ pc = "validate"
  /\ cookie = Empty
  /\ torrents = <<>>
  /\ ti = 1
  /\ trackers = <<>>
  /\ tri = 1
  /\ totalChecked = 0
  /\ totalChanged = 0
  /\ calls = <<>>
  /\ out = <<>>
  /\ ret = <<>>
  /\ remote = LiveRemote
  /\ preview = <<>>
  /\ main = [pc |-> "parseArgs", loop |-> Undefined, interval |-> Undefined, intervalSec |-> 0]
  /\ argv \in ArgvSet
  /\ env \in EnvSet
  /\ masked = <<>>

SpecParse == InitParse /\ [][ParseArgs]_vars

\* ------------------------------------------------ maskSecret on its own
\* maskSecret that returns the secret as it is
maskSecret_Unmasked(val) == String(val)

\* index.js 43-48
maskSecret(val) ==
  IF ~Truthy(val) THEN <<>>
  ELSE LET s == String(val)
       IN  IF Len(s) <= 2
           THEN [i \in 1..Len(s) |-> "*"]
           ELSE [i \in 1..(Len(s) - 2) |-> "*"] \o SubSeq(s, Len(s) - 1, Len(s))

\* index.js 184-200: the password of the debug output
DebugArguments ==
  /\ pc = "debug"
  /\ masked' = maskSecret(args.password)
  /\ pc' = "validate"
  /\ UNCHANGED <<args, cookie, torrents, ti, trackers, tri, totalChecked, totalChanged,
                 calls, out, ret, remote, preview, main, argv, env>>

Secrets ==
  { Undefined, Null, True, False } \cup { Str(s) : s \in SeqsUpTo({"a", "b", "*"}, MaxSecretLen) }

InitMask ==
  /\ args \in [password : Secrets, debug : {True}]
  /\ pc = "debug"
  /\ cookie = Empty
  /\ torrents = <<>>
  /\ ti = 1
  /\ trackers = <<>>
  /\ tri = 1
  /\ totalChecked = 0
  /\ totalChanged = 0
  /\ calls = <<>>
  /\ out = <<>>
  /\ ret = <<>>
  /\ remote = LiveRemote
  /\ preview = <<>>
  /\ NoDriver

SpecMask == InitMask /\ [][DebugArguments]_vars

\* --------------------------------------------------- main: the loop driver
DefaultIntervalSec == 10

Digits == {"0", "1", "2", "3", "4", "5", "6", "7", "8", "9"}

DigitValue(c) ==
  CASE c = "0" -> 0 [] c = "1" -> 1 [] c = "2" -> 2 [] c = "3" -> 3 [] c = "4" -> 4
    [] c = "5" -> 5 [] c = "6" -> 6 [] c = "7" -> 7 [] c = "8" -> 8 [] c = "9" -> 9

RECURSIVE NumeralValue(_, _)
NumeralValue(s, base) ==
  IF s = <<>> THEN 0
  ELSE NumeralValue(SubSeq(s, 1, Len(s) - 1), base) * base + DigitValue(s[Len(s)])

NaN == [nan |-> TRUE, val |-> 0]
Num(n) == [nan |-> FALSE, val |-> n]

\* Number(v) for booleans, null, undefined and strings made of digits, "-"
\* and "s": a decimal numeral with an optional sign is its value, the empty
\* string is 0 and any other string of these characters is NaN.
Number(v) ==
  LET s == v.s
      AllIn(t, D) == t # <<>> /\ \A i \in 1..Len(t) : t[i] \in D
  IN  CASE v = True -> Num(1)
        [] v = False -> Num(0)
        [] v = Null -> Num(0)
        [] v = Undefined -> NaN
        [] OTHER ->
             IF s = <<>> THEN Num(0)
             ELSE IF AllIn(s, Digits) THEN Num(NumeralValue(s, 10))
             ELSE IF s[1] = "-" /\ AllIn(Tail(s), Digits) THEN Num(0 - NumeralValue(Tail(s), 10))
             ELSE NaN

\* index.js 303-304
IntervalSec(interval) ==
  LET intervalSec == IF Truthy(interval) THEN Number(interval) ELSE Num(DefaultIntervalSec)
  IN  IF intervalSec.nan \/ intervalSec.val <= 0 THEN DefaultIntervalSec ELSE intervalSec.val

run == <<args, pc, cookie, torrents, ti, trackers, tri,
         totalChecked, totalChanged, calls, out, ret, remote, preview>>

\* index.js 300-306 and 315: main after parseArgs
Main ==
  /\ main.pc = "main"
  /\ main' = [main EXCEPT !.pc = "call",
                          !.intervalSec = IF main.loop = True THEN IntervalSec(main.interval) ELSE @]
  /\ UNCHANGED <<run, argv, env, masked>>

\* CallRunOnce with one client kept for all runs
CallRunOnce_KeepsClient ==
  /\ main.pc = "call"
  /\ main' = [main EXCEPT !.pc = "run"]
  /\ pc' = "validate"
  /\ torrents' = <<>>
  /\ ti' = 1
  /\ trackers' = <<>>
  /\ tri' = 1
  /\ totalChecked' = 0
  /\ totalChanged' = 0
  /\ calls' = <<>>
  /\ out' = <<>>
  /\ ret' = <<>>
  /\ remote' = [LiveRemote EXCEPT !.record = remote.record]
  /\ UNCHANGED <<args, cookie, preview, argv, env, masked>>

\* index.js 309 and 316: runOnce(args) is entered; it builds its own client
\* (218, part_002 9-15), and the remote end answers the requests of a new
\* run afresh
CallRunOnce ==
  /\ main.pc = "call"
  /\ main' = [main EXCEPT !.pc = "run"]
  /\ pc' = "validate"
  /\ cookie' = Empty
  /\ torrents' = <<>>
  /\ ti' = 1
  /\ trackers' = <<>>
  /\ tri' = 1
  /\ totalChecked' = 0
  /\ totalChanged' = 0
  /\ calls' = <<>>
  /\ out' = <<>>
  /\ ret' = <<>>
  /\ remote' = [LiveRemote EXCEPT !.record = remote.record]
  /\ UNCHANGED <<args, preview, argv, env, masked>>

\* part_002 97-98 and index.js 259: getTrackers answers 2xx with JSON that
\* is not iterable, and `for (const tr of trackers)` throws out of runOnce
TrackersNotIterable ==
  /\ main.pc = "run"
  /\ pc = "torrent"
  /\ ti <= Len(torrents)
  /\ calls' = Append(calls, Call("trackers", torrents[ti].hash, Empty, Empty, TRUE, 0, 200))
  /\ pc' = "threw"
  /\ UNCHANGED <<args, cookie, torrents, ti, trackers, tri, totalChecked, totalChanged,
                 out, ret, remote, preview, driver>>

\* Returned with the loop left on a code other than 0
Returned_ExitsOnError ==
  /\ main.pc = "run"
  /\ pc = "done"
  /\ main' = [main EXCEPT !.pc = IF main.loop = True /\ ret = <<0>> THEN "sleep" ELSE "exit"]
  /\ UNCHANGED <<run, argv, env, masked>>

\* index.js 309 and 313, 316-317: runOnce returned its code
Returned ==
  /\ main.pc = "run"
  /\ pc = "done"
  /\ main' = [main EXCEPT !.pc = IF main.loop = True THEN "sleep" ELSE "exit"]
  /\ UNCHANGED <<run, argv, env, masked>>

\* Threw without the catch of the loop: the exception ends main
Threw_Terminates ==
  /\ main.pc = "run"
  /\ pc = "threw"
  /\ main' = [main EXCEPT !.pc = "rejected"]
  /\ UNCHANGED <<run, argv, env, masked>>

\* index.js 310-313: the catch of the loop logs; outside loop mode nothing
\* catches and the promise of main is rejected
Threw ==
  /\ main.pc = "run"
  /\ pc = "threw"
  /\ IF main.loop = True
     THEN /\ out' = Append(out, Line("unexpected-error", totalChecked, totalChanged, "-"))
          /\ main' = [main EXCEPT !.pc = "sleep"]
     ELSE /\ main' = [main EXCEPT !.pc = "rejected"]
          /\ UNCHANGED out
  /\ UNCHANGED <<args, pc, cookie, torrents, ti, trackers, tri, totalChecked, totalChanged,
                 calls, ret, remote, preview, argv, env, masked>>

\* index.js 313: the timer of sleep fires
Slept ==
  /\ main.pc = "sleep"
  /\ main' = [main EXCEPT !.pc = "call"]
  /\ UNCHANGED <<run, argv, env, masked>>

\* the values of args.interval main is started with
Intervals == { Undefined, Str(<<"3">>) }

InitLoop ==
  /\ args \in { a \in ArgsSet : a.hash = <<>> }
  /\ pc = "validate"
  /\ cookie = Empty
  /\ torrents = <<>>
  /\ ti = 1
  /\ trackers = <<>>
  /\ tri = 1
  /\ totalChecked = 0
  /\ totalChanged = 0
  /\ calls = <<>>
  /\ out = <<>>
  /\ ret = <<>>
  /\ remote = LiveRemote
  /\ preview = <<>>
  /\ main \in { m \in [pc : {"main"}, loop : {True, False}, interval : Intervals, intervalSec : {0}] :
                   m.loop = False => m.interval = Undefined }
  /\ argv = <<>>
  /\ env = NoEnv
  /\ masked = <<>>

\* ---------------------------------------------- main: the interval alone
IntervalInputs ==
  { Undefined, True } \cup { Str(s) : s \in SeqsUpTo({"0", "3", "-", "s"}, MaxIntervalLen) }

InitInterval ==
  /\ args \in { a \in ArgsSet : ~a.help /\ ~a.dryRun /\ a.hash = <<>>
                                /\ \A k \in {"baseUrl", "username", "password", "pattern", "replacement"} :
                                     a[k] # Empty /\ a[k] # <<"(">> }
  /\ pc = "validate"
  /\ cookie = Empty
  /\ torrents = <<>>
  /\ ti = 1
  /\ trackers = <<>>
  /\ tri = 1
  /\ totalChecked = 0
  /\ totalChanged = 0
  /\ calls = <<>>
  /\ out = <<>>
  /\ ret = <<>>
  /\ remote = LiveRemote
  /\ preview = <<>>
  /\ main \in [pc : {"main"}, loop : {True}, interval : IntervalInputs, intervalSec : {0}]
  /\ argv = <<>>
  /\ env = NoEnv
  /\ masked = <<>>

SpecInterval == InitInterval /\ [][Main]_vars

NextLoop ==
  \/ Main
  \/ CallRunOnce
  \/ main.pc = "run" /\ Next
  \/ TrackersNotIterable
  \/ Returned
  \/ Threw
  \/ Slept

SpecLoop == InitLoop /\ [][NextLoop]_vars

\* ------------------------------------- main: from the command line to a run
\* What runOnce makes of an option of the object parseArgs returned: a falsy
\* value is a missing option, any other value is used as the string it
\* converts to (new RegExp(args.pattern), origUrl.replace(regex,
\* args.replacement)).
Text(v) == IF Truthy(v) THEN String(v) ELSE Empty

\* the object of parseArgs as runOnce reads it (no --help, --hash given)
RunArgs(a) ==
  [help |-> FALSE, baseUrl |-> Text(a["baseUrl"]), username |-> Text(a["username"]),
   password |-> Text(a["password"]), pattern |-> Text(a["pattern"]),
   replacement |-> Text(a["replacement"]), dryRun |-> Truthy(a["dryRun"]), hash |-> <<>>]

\* index.js 316 and 177: runOnce is entered with the object of parseArgs
EnterRunOnce ==
  /\ main.pc = "call"
  /\ args' = RunArgs(args)
  /\ main' = [main EXCEPT !.pc = "run"]
  /\ pc' = "validate"
  /\ cookie' = Empty
  /\ torrents' = <<>>
  /\ ti' = 1
  /\ trackers' = <<>>
  /\ tri' = 1
  /\ totalChecked' = 0
  /\ totalChanged' = 0
  /\ calls' = <<>>
  /\ out' = <<>>
  /\ ret' = <<>>
  /\ UNCHANGED <<remote, preview, argv, env, masked>>

\* command lines that give the replacement, or not, with or without a value
CliArgvs == SeqsUpTo({ Option("replacement"), <<"b">>, <<>> }, MaxCliArgv)

\* environments that give the other required options, and the replacement
\* as nothing, as the empty string or as b
CliEnvs ==
  { [n \in EnvNames |->
       CASE n \in {"QBT_BASE_URL", "QBT_USERNAME", "QBT_PASSWORD"} -> Str(<<"x">>)
         [] n = "QBT_PATTERN" -> Str(<<"a">>)
         [] n = "QBT_REPLACEMENT" -> r
         [] OTHER -> Undefined] : r \in { Undefined, Str(<<>>), Str(<<"b">>) } }

InitCli ==
  /\ args = [k \in Keys |-> Undefined]
  /\ pc = "validate"
  /\ cookie = Empty
  /\ torrents = <<>>
  /\ ti = 1
  /\ trackers = <<>>
  /\ tri = 1
  /\ totalChecked = 0
  /\ totalChanged = 0
  /\ calls = <<>>
  /\ out = <<>>
  /\ ret = <<>>
  /\ remote = LiveRemote
  /\ preview = <<>>
  /\ main = [pc |-> "parseArgs", loop |-> Undefined, interval |-> Undefined, intervalSec |-> 0]
  /\ argv \in CliArgvs
  /\ env \in CliEnvs
  /\ masked = <<>>

NextCli ==
  \/ ParseArgs
  \/ Main
  \/ EnterRunOnce
  \/ main.pc = "run" /\ Next
  \/ Returned

SpecCli == InitCli /\ [][NextCli]_vars

\* the loop against a remote end whose answers of the current run are kept
InitLoopRecorded ==
  /\ args \in { a \in ArgsSet : a.hash = <<>> }
  /\ pc = "validate"
  /\ cookie = Empty
  /\ torrents = <<>>
  /\ ti = 1
  /\ trackers = <<>>
  /\ tri = 1
  /\ totalChecked = 0
  /\ totalChanged = 0
  /\ calls = <<>>
  /\ out = <<>>
  /\ ret = <<>>
  /\ remote = [LiveRemote EXCEPT !.record = TRUE]
  /\ preview = <<>>
  /\ main \in { m \in [pc : {"main"}, loop : {True, False}, interval : Intervals, intervalSec : {0}] :
                   m.loop = False => m.interval = Undefined }
  /\ argv = <<>>
  /\ env = NoEnv
  /\ masked = <<>>

SpecLoopRecorded == InitLoopRecorded /\ [][NextLoop]_vars

\* awaited requests are answered and the timer of sleep fires
FairSpecLoop == SpecLoop /\ WF_vars(NextLoop)

\* ================================================================ claims
EditCalls == { i \in 1..Len(calls) : calls[i].op = "editTracker" }
TrackersCalls == { i \in 1..Len(calls) : calls[i].op = "trackers" }
LoginSucceeded == \E i \in 1..Len(calls) : calls[i].op = "login" /\ calls[i].ok
ListSucceeded == \E i \in 1..Len(calls) : calls[i].op = "torrents" /\ calls[i].ok
LastLine == out[Len(out)]

HttpA == <<"h", "t", "t", "p", ":", "/", "/", "a">>
HttpB == <<"h", "t", "t", "p", ":", "/", "/", "b">>
UdpA == <<"u", "d", "p", ":", "/", "/", "a">>

\* C1: with dryRun enabled the edit-tracker operation is never invoked,
\* whatever the remote returns and whichever calls fail.
C1_DryRunNeverEdits == args.dryRun => EditCalls = {}

\* C1 witness: a dry run has just checked a tracker whose rewrite differs
\* from the original URL.
C1_Witness ==
  /\ args.dryRun
  /\ pc = "tracker"
  /\ tri > 1
  /\ trackers[tri - 1].url = HttpA
  /\ replace(HttpA, args.pattern, args.replacement) = HttpB
  /\ totalChecked > 0

\* C2: the count a preview run reports as "Would change" equals the count
\* the same run reports as "Changed" without preview when every edit
\* succeeds.
C2_PreviewCountEqualsApplyCount ==
  (/\ pc = "done"
   /\ preview # <<>>
   /\ preview[1].msg = "summary"
   /\ \A i \in EditCalls : calls[i].ok)
  => /\ LastLine.msg = "summary"
     /\ preview[1].label = "Would change"
     /\ LastLine.label = "Changed"
     /\ preview[1].changed = LastLine.changed

\* C3: a tracker URL that is empty or has no http(s) scheme is never passed
\* to the edit operation and never increments the Checked total, even when
\* the pattern matches it.
NonHttpUrls == { UdpA, Empty }

RequestedSet == { toLowerCase(args.hash[j]) : j \in 1..Len(args.hash) }

C4_OnlyRequestedHashesTouched ==
  Len(args.hash) > 1 =>
    \A i \in TrackersCalls \cup EditCalls : toLowerCase(calls[i].hash) \in RequestedSet

\* C4 witness: the remote returned more torrents than were requested, and
\* a kept torrent, whose hash differs in case from the requested one, was
\* edited.
C4_Witness ==
  /\ Len(args.hash) > 1
  /\ \E i \in 1..Len(calls) : calls[i].op = "torrents" /\ calls[i].count > Len(torrents)
  /\ \E i \in EditCalls : calls[i].hash = <<"A">>

MissingRequired ==
  \/ args.baseUrl = Empty
  \/ args.username = Empty
  \/ args.password = Empty
  \/ args.pattern = Empty
  \/ args.replacement = Empty

InvalidPattern == args.pattern = <<"(">>

\* C5 as stated: a missing required option or a pattern that does not
\* compile makes runOnce return 2 with no network call.
C5_Original ==
  (MissingRequired \/ InvalidPattern) =>
    (calls = <<>> /\ (pc = "done" => ret = <<2>>))

\* C5 amended: a missing required option or a pattern that does not compile
\* makes runOnce return 2, or 0 after printing the usage when help is
\* requested, and in both cases no network call is made.
C5_ConfigErrorNoNetwork ==
  (MissingRequired \/ InvalidPattern) =>
    (calls = <<>> /\ (pc = "done" => ret = (IF args.help THEN <<0>> ELSE <<2>>)))

\* C5 witness: a run without help and with the invalid pattern has
\* returned 2.
C5_Witness ==
  /\ pc = "done"
  /\ ~args.help
  /\ ~MissingRequired
  /\ InvalidPattern
  /\ ret = <<2>>
  /\ LastLine.msg = "invalid-regex"

\* C6: a failed login ends the run with 1 and no further call; a failed
\* listing after a successful login ends it with 1 and no tracker fetch or
\* edit.
C6_AuthenticateAndListFailFast ==
  /\ \A i \in 1..Len(calls) :
       (calls[i].op = "login" /\ ~calls[i].ok)
         => (Len(calls) = 1 /\ pc = "done" /\ ret = <<1>>)
  /\ \A i \in 1..Len(calls) :
       (calls[i].op = "torrents" /\ ~calls[i].ok)
         => (i = Len(calls) /\ TrackersCalls = {} /\ EditCalls = {}
             /\ pc = "done" /\ ret = <<1>>)

\* C6 witness: login succeeded, the listing failed, the run returned 1.
C6_Witness ==
  /\ pc = "done"
  /\ ret = <<1>>
  /\ Len(calls) = 2
  /\ calls[1].op = "login" /\ calls[1].ok
  /\ calls[2].op = "torrents" /\ ~calls[2].ok

Fetches == SelectSeq(calls, LAMBDA c : c.op = "trackers")
LastFetch == calls[CHOOSE i \in TrackersCalls : \A j \in TrackersCalls : j <= i]
LastCall == calls[Len(calls)]

\* C7: a torrent whose tracker fetch fails is skipped (nothing of it is
\* checked or edited), every torrent of the list still gets its fetch, in
\* list order, and the run returns 0.
C7_FailedFetchSkipsTorrentOnly ==
  /\ [](\A i \in TrackersCalls :
          ~calls[i].ok => (i = Len(calls) \/ calls[i + 1].op = "trackers"))
  /\ []((pc = "done" /\ ListSucceeded /\ torrents # <<>>)
          => /\ ret = <<0>>
             /\ [i \in 1..Len(Fetches) |-> Fetches[i].hash]
                  = [i \in 1..Len(torrents) |-> torrents[i].hash])
  /\ [][(totalChecked' # totalChecked)
          => (TrackersCalls # {} /\ LastFetch.ok)]_vars

\* C7 witness: the first fetch failed, the second torrent was fetched and
\* checked, the run returned 0.
C7_Witness ==
  /\ pc = "done"
  /\ ret = <<0>>
  /\ Len(Fetches) = 2
  /\ ~Fetches[1].ok
  /\ Fetches[2].ok
  /\ totalChecked > 0

\* C8: a failed edit does not increment Changed, the remaining trackers of
\* the torrent and the later torrents are still processed, and the run
\* returns 0.
C8_FailedEditIsolated ==
  /\ [](totalChanged = Cardinality({ i \in EditCalls : calls[i].ok }))
  /\ []((pc = "done" /\ ListSucceeded /\ torrents # <<>>)
          => (ret = <<0>> /\ Len(Fetches) = Len(torrents)))
  /\ [][(calls' # calls /\ LastCall'.op = "editTracker" /\ ~LastCall'.ok)
          => /\ totalChanged' = totalChanged
             /\ tri' = tri + 1
             /\ pc' = "tracker"
             /\ UNCHANGED <<ti, trackers, torrents>>]_vars

\* C8 witness: an edit failed, the next tracker of the same torrent was
\* edited, a later torrent was fetched, and the run returned 0 with one
\* change.
C8_Witness ==
  /\ pc = "done"
  /\ ret = <<0>>
  /\ totalChanged = 1
  /\ \E i \in EditCalls :
       /\ ~calls[i].ok
       /\ i + 2 <= Len(calls)
       /\ calls[i + 1].op = "editTracker" /\ calls[i + 1].ok
       /\ calls[i + 1].hash = calls[i].hash
       /\ calls[i + 2].op = "trackers"

C11_Original ==
  (pc = "done" /\ \E i \in 1..Len(calls) : calls[i].op # "login" /\ calls[i].status = 401)
    => ret = <<1>>

Rejected(op) == calls' # calls /\ LastCall'.op = op /\ LastCall'.status = 401

\* C11 amended: no call rejected with HTTP 401 is retried and login is not
\* issued again; a rejected listing ends the run with 1, while a rejected
\* tracker fetch only skips its torrent and a rejected edit only its
\* tracker, the run going on to return 0.
C11_RejectedCallNotRetried ==
  /\ [](Cardinality({ i \in 1..Len(calls) : calls[i].op = "login" }) <= 1)
  /\ []((pc = "done" /\ \E i \in TrackersCalls \cup EditCalls : calls[i].status = 401)
          => ret = <<0>>)
  /\ [][Rejected("torrents") => (pc' = "done" /\ ret' = <<1>>)]_vars
  /\ [][Rejected("trackers") => (ti' = ti + 1 /\ pc' = "torrent")]_vars
  /\ [][Rejected("editTracker") => (tri' = tri + 1 /\ pc' = "tracker" /\ ti' = ti)]_vars

\* C11 witness: a tracker fetch and an edit were both rejected with 401
\* and the run returned 0.
C11_Witness ==
  /\ pc = "done"
  /\ ret = <<0>>
  /\ \E i \in TrackersCalls : calls[i].status = 401
  /\ \E i \in EditCalls : calls[i].status = 401

HttpsB == <<"H", "T", "T", "P", "S", ":", "/", "/", "b">>
EligibleUrls == { HttpA, HttpsB }

\* The rewrite of the only rule that passes validation in the model
\* (pattern a, replacement b).
Rewritten(u) == IF u = HttpA THEN HttpB ELSE u

Edit(hash, origUrl, newUrl) == [hash |-> hash, origUrl |-> origUrl, newUrl |-> newUrl]

RECURSIVE EditsOfList(_, _)
EditsOfList(hash, list) ==
  IF list = <<>> THEN <<>>
  ELSE (IF Head(list).url \in EligibleUrls /\ Rewritten(Head(list).url) # Head(list).url
        THEN <<Edit(hash, Head(list).url, Rewritten(Head(list).url))>>
        ELSE <<>>) \o EditsOfList(hash, Tail(list))

RECURSIVE ExpectedEdits(_)
\* the edits due for the torrents i..Len(torrents), from what the remote
\* answered to their tracker fetches
ExpectedEdits(i) ==
  IF i > Len(torrents) \/ i > Len(remote.trackers) THEN <<>>
  ELSE EditsOfList(torrents[i].hash, remote.trackers[i].data) \o ExpectedEdits(i + 1)

RECURSIVE EligibleCount(_)
EligibleCount(i) ==
  IF i > Len(torrents) \/ i > Len(remote.trackers) THEN 0
  ELSE Cardinality({ k \in 1..Len(remote.trackers[i].data) :
                       remote.trackers[i].data[k].url \in EligibleUrls })
       + EligibleCount(i + 1)

IssuedEdits ==
  LET e == SelectSeq(calls, LAMBDA c : c.op = "editTracker")
  IN  [k \in 1..Len(e) |-> Edit(e[k].hash, e[k].origUrl, e[k].newUrl)]

OldUrl == <<"h", "t", "t", "p", ":", "/", "/", "old", ".", "example", ".", "com", "/", "announce">>
NewUrl == <<"h", "t", "t", "p", ":", "/", "/", "new", ".", "example", ".", "com", "/", "announce">>

\* C12: without preview and with every call succeeding, the edits issued
\* are exactly, in order, one (hash, original, rewritten) per eligible URL
\* whose rewrite differs; Checked is the number of eligible URLs and
\* Changed the number of edits.  The rule old\.example\.com ->
\* new.example.com rewrites http://old.example.com/announce to
\* http://new.example.com/announce.
C12_OneEditPerChangedUrl ==
  /\ (pc = "done" /\ ~args.dryRun /\ LastLine.msg = "summary"
      /\ \A i \in 1..Len(calls) : calls[i].ok)
       => /\ IssuedEdits = ExpectedEdits(1)
          /\ LastLine = Line("summary", EligibleCount(1), Len(IssuedEdits), "Changed")
  /\ replace(OldUrl, <<"old", "\\.", "example", "\\.", "com">>, <<"new", ".", "example", ".", "com">>)
       = NewUrl

\* C12 witness: one torrent with the one tracker http://a, edited once to
\* http://b, and the summary "Checked 1 ... Changed 1".
C12_Witness ==
  /\ pc = "done"
  /\ ~args.dryRun
  /\ torrents = <<[hash |-> <<"A">>]>>
  /\ remote.trackers = <<[ok |-> TRUE, status |-> 200, data |-> <<[url |-> HttpA]>>]>>
  /\ IssuedEdits = <<Edit(<<"A">>, HttpA, HttpB)>>
  /\ calls[Len(calls)].ok
  /\ LastLine = Line("summary", 1, 1, "Changed")

\* The cookie a Set-Cookie header sets (RFC 6265): the name=value pair the
\* header starts with, the value running up to the first ";" or to the end
\* of the header.
HeaderCookieEnd(h) ==
  IF \E j \in 3..Len(h) : h[j] = ";" THEN Min({ j \in 3..Len(h) : h[j] = ";" }) - 1 ELSE Len(h)

Carries(h, name) ==
  /\ Len(h) >= 3
  /\ h[1] = name
  /\ h[2] = "="
  /\ h[3] # ";"

CarriedToken(h) == SubSeq(h, 1, HeaderCookieEnd(h))

HeaderOfLogin == remote.login[1].setCookie

\* C13: a 2xx login answer whose Set-Cookie carries SID, or else
\* qbittorrent_sess, makes login succeed and store that non-empty token; a
\* 2xx answer carrying neither succeeds exactly when a token was already
\* held, which is kept; a non-2xx answer fails; a held token is never
\* replaced by an empty one.
C13_LoginStoresToken ==
  (pc = "done" /\ calls # <<>> /\ calls[1].op = "login" /\ remote.login # <<>>)
    => LET res == remote.login[1]
           held == calls[1].cookie
       IN  /\ ~res.ok => (~calls[1].ok /\ cookie = held)
           /\ (res.ok /\ (Carries(HeaderOfLogin, "SID") \/ Carries(HeaderOfLogin, "qbittorrent_sess")))
                => (calls[1].ok /\ cookie = CarriedToken(HeaderOfLogin) /\ cookie # Empty)
           /\ (held # Empty => cookie # Empty)

\* C14: every list-torrents, list-trackers and edit-tracker request comes
\* after the run's successful login and carries the non-empty session token
\* that login obtained, the same in every request of the run.
C14_TokenOnEveryRequest ==
  \A i \in 1..Len(calls) :
    calls[i].op # "login"
      => /\ i > 1
         /\ calls[1].op = "login"
         /\ calls[1].ok
         /\ calls[1].cookie = Empty
         /\ calls[i].cookie # Empty
         /\ calls[i].cookie = CarriedToken(HeaderOfLogin)

C14_Witness ==
  /\ pc = "done"
  /\ remote.login # <<>>
  /\ HeaderOfLogin = SessHeader
  /\ \E i \in 1..Len(calls) : calls[i].op = "torrents"
  /\ \E i \in TrackersCalls : ~calls[i].ok
  /\ \E i \in TrackersCalls : calls[i].ok
  /\ \E i \in EditCalls : calls[i].cookie = <<"qbittorrent_sess", "=", "y">>

\* C15: in loop mode every run, whether it returned a code or threw, is
\* followed by the sleep and then by another run, for ever; an exception of
\* runOnce is logged and main neither exits nor is rejected.
C15_LoopRunsForever ==
  /\ [](main.loop = True => main.pc \notin {"exit", "rejected"})
  /\ [][(main.loop = True /\ main.pc = "run" /\ main'.pc # "run")
          => (pc \in {"done", "threw"} /\ main'.pc = "sleep")]_vars
  /\ [][(main.loop = True /\ main.pc = "run" /\ pc = "threw" /\ main'.pc # "run")
          => (out' # <<>> /\ out'[Len(out')].msg = "unexpected-error")]_vars
  /\ [][(main.pc = "sleep" /\ main'.pc # "sleep")
          => (main'.pc = "call" /\ main'.intervalSec = main.intervalSec)]_vars
  /\ (main.loop = True /\ main.pc = "run" /\ pc \in {"done", "threw"}) ~> (main.pc = "sleep")
  /\ (main.pc = "sleep") ~> (main.pc = "run" /\ pc = "validate" /\ calls = <<>>)
  /\ []<>(main.loop = True => main.pc = "call")

C15_Witness ==
  /\ main.loop = True
  /\ main.pc = "sleep"
  /\ pc = "threw"
  /\ out # <<>>
  /\ out[Len(out)].msg = "unexpected-error"

\* The configured interval as the claim reads it: a decimal numeral that
\* denotes a positive number is that number of seconds.
IsPositiveNumeral(v) ==
  /\ v.t = "string"
  /\ v.s # <<>>
  /\ \A i \in 1..Len(v.s) : v.s[i] \in Digits
  /\ \E i \in 1..Len(v.s) : v.s[i] # "0"

\* C16: in loop mode the interval is the configured value when that is a
\* positive finite number and 10 when it is absent, non-numeric or
\* non-positive, a bare --interval (the value true) included.
C16_IntervalOrDefault ==
  (main.pc = "call" /\ main.loop = True)
    => main.intervalSec = IF IsPositiveNumeral(main.interval)
                          THEN NumeralValue(main.interval.s, 10)
                          ELSE 10

\* C17: maskSecret of a string has the length of the string: all "*" up to
\* length 2, otherwise "*" for all but the last two characters, which are
\* kept; the empty string, null and undefined give the empty string.
C17_MaskKeepsLastTwo ==
  (pc = "validate" /\ args.password.t # "boolean")
    => LET s == args.password.s
           n == Len(s)
       IN  IF args.password.t \in {"undefined", "null"}
           THEN masked = <<>>
           ELSE /\ Len(masked) = n
                /\ \A i \in 1..n : i <= n - 2 \/ n <= 2 => masked[i] = "*"
                /\ n > 2 => (masked[n - 1] = s[n - 1] /\ masked[n] = s[n])

C17_Witness ==
  /\ pc = "validate"
  /\ args.password = Str(<<"a", "*", "b", "a">>)
  /\ masked = <<"*", "*", "b", "a">>

\* The command line as the claim reads it: an option is given when it
\* occurs in argv; its value is the element after its last occurrence when
\* that is a non-empty element that is no option, and true otherwise.
Given(name) == \E i \in 1..Len(argv) : argv[i] = Option(name)

CliValue(name) ==
  LET i == CHOOSE j \in 1..Len(argv) :
             argv[j] = Option(name) /\ \A k \in (j + 1)..Len(argv) : argv[k] # Option(name)
  IN  IF name \notin {"loop", "debug"} /\ i < Len(argv) /\ argv[i + 1] # <<>> /\ argv[i + 1][1] # "--"
      THEN Str(argv[i + 1])
      ELSE True

\* The environment as the claim reads it: the first of the two names that
\* is set; yes, 1 and ON switch on, no and 0 switch off.
EnvFirst(a, b) == IF env[a] # Undefined THEN env[a] ELSE env[b]

EnvSwitch(a, b) ==
  CASE EnvFirst(a, b) = Undefined -> Undefined
    [] EnvFirst(a, b).s \in {<<"y", "e", "s">>, <<"1">>, <<" ", "O", "N">>} -> True
    [] OTHER -> False

EnvFallback(name) ==
  CASE name = "baseUrl" -> env["QBT_BASE_URL"]
    [] name = "username" -> env["QBT_USERNAME"]
    [] name = "password" -> env["QBT_PASSWORD"]
    [] name = "pattern" -> env["QBT_PATTERN"]
    [] name = "replacement" -> env["QBT_REPLACEMENT"]
    [] name = "loop" -> EnvSwitch("QBT_LOOP", "LOOP")
    [] name = "interval" -> EnvFirst("QBT_LOOP_INTERVAL", "LOOP_INTERVAL")
    [] name = "debug" -> EnvSwitch("QBT_DEBUG", "DEBUG")

\* C18: parseArgs takes each of baseUrl, username, password, pattern,
\* replacement, loop, interval and debug from the command line when the
\* option is given there, whatever the environment holds, and from its
\* environment fallback otherwise.
C18_CommandLineWinsOverEnv ==
  main.pc = "main"
    => \A name \in Keys \ {"dryRun"} :
         args[name] = IF Given(name) THEN CliValue(name) ELSE EnvFallback(name)

C18_Witness ==
  /\ main.pc = "main"
  /\ argv = <<Option("baseUrl"), <<"v">>, Option("loop")>>
  /\ env["QBT_BASE_URL"] = Str(<<"QBT_BASE_URL">>)
  /\ env["QBT_LOOP"] = Str(<<"n", "o">>)
  /\ env["QBT_DEBUG"] = Str(<<" ", "O", "N">>)
  /\ args["baseUrl"] = Str(<<"v">>)
  /\ args["loop"] = True
  /\ args["username"] = Str(<<"QBT_USERNAME">>)
  /\ args["debug"] = True

\* The requests of a run in the order the claim gives, from what the remote
\* answered: login, list torrents, then for each kept torrent in the
\* remote's order its tracker fetch and, unless that failed or the run is a
\* preview, its edits in tracker-list order.
Request(op, hash, origUrl) == <<op, hash, origUrl>>

KeptTorrents ==
  SelectSeq(remote.list[1].data,
            LAMBDA t : Len(args.hash) <= 1 \/ toLowerCase(t.hash) \in RequestedSet)

RECURSIVE RequestsOfTorrents(_)
RequestsOfTorrents(i) ==
  IF i > Len(KeptTorrents) THEN <<>>
  ELSE LET hash == KeptTorrents[i].hash
           edits == IF i <= Len(remote.trackers) /\ remote.trackers[i].ok /\ ~args.dryRun
                    THEN EditsOfList(hash, remote.trackers[i].data)
                    ELSE <<>>
       IN  <<Request("trackers", hash, Empty)>>
             \o [k \in 1..Len(edits) |-> Request("editTracker", hash, edits[k].origUrl)]
             \o RequestsOfTorrents(i + 1)

RequestsOfRun ==
  <<Request("login", Empty, Empty)>>
    \o (IF ~calls[1].ok THEN <<>>
        ELSE <<Request("torrents", Empty, Empty)>>
               \o (IF remote.list = <<>> \/ ~remote.list[1].ok THEN <<>> ELSE RequestsOfTorrents(1)))

IssuedRequests == [i \in 1..Len(calls) |-> Request(calls[i].op, calls[i].hash, calls[i].origUrl)]

CallsOf(op) == { i \in 1..Len(calls) : calls[i].op = op }

\* the index in calls of the k-th tracker fetch, and the edits issued
\* between it and the next fetch
FetchIndex(k) == CHOOSE i \in TrackersCalls : Cardinality({ j \in TrackersCalls : j <= i }) = k

EditsAfterFetch(k) ==
  { i \in EditCalls :
      /\ i > FetchIndex(k)
      /\ k < Cardinality(TrackersCalls) => i < FetchIndex(k + 1) }

\* C20 as stated: login is issued exactly once in every run.
C20_Original ==
  pc = "done" => Cardinality(CallsOf("login")) = 1

\* C20: no call is repeated within a run, whichever responses are failures:
\* login is issued at most once, and exactly once in every run that passes
\* validation; list torrents at most once; one tracker fetch at most per
\* listed torrent; at most one edit per entry of a fetched tracker list.
C20_NoCallRepeated ==
  /\ Cardinality(CallsOf("login")) <= 1
  /\ (pc = "done" /\ LastLine.msg \notin {"help", "missing", "invalid-regex"})
       => Cardinality(CallsOf("login")) = 1
  /\ Cardinality(CallsOf("torrents")) <= 1
  /\ Cardinality(TrackersCalls) <= Len(torrents)
  /\ \A k \in 1..Cardinality(TrackersCalls) :
       /\ calls[FetchIndex(k)].hash = torrents[k].hash
       /\ \A u \in Urls :
            Cardinality({ i \in EditsAfterFetch(k) : calls[i].origUrl = u })
              <= Cardinality({ j \in 1..Len(remote.trackers[k].data) :
                                 remote.trackers[k].data[j].url = u })

\* C20 witness: a run whose tracker fetch failed for the first torrent and
\* whose edit failed for the second, ended with one login, one listing, two
\* fetches and one edit.
C20_Witness ==
  /\ pc = "done"
  /\ Len(torrents) = 2
  /\ Cardinality(CallsOf("login")) = 1
  /\ Cardinality(CallsOf("torrents")) = 1
  /\ Cardinality(TrackersCalls) = 2
  /\ ~calls[FetchIndex(1)].ok
  /\ Cardinality(EditCalls) = 1
  /\ \A i \in EditCalls : ~calls[i].ok

\* C21: every runOnce starts with a client that holds no token, its login
\* request carries none, and a 2xx login answer without a SID or
\* qbittorrent_sess cookie ends the run with 1 after that one call, in the
\* first run of a loop as in every later one.
C21_FreshClientEachRun ==
  /\ [][(main.pc = "call" /\ main'.pc = "run") => cookie' = Empty]_vars
  /\ [](pc = "validate" => cookie = Empty)
  /\ [](calls # <<>> => (calls[1].op = "login" /\ calls[1].cookie = Empty))
  /\ []((remote.login # <<>> /\ remote.login[1].ok
          /\ ~Carries(HeaderOfLogin, "SID") /\ ~Carries(HeaderOfLogin, "qbittorrent_sess"))
         => /\ pc = "done"
            /\ ret = <<1>>
            /\ Len(calls) = 1
            /\ ~calls[1].ok
            /\ cookie = Empty)

\* C21 witness: a run of the loop whose login was answered 200 without a
\* cookie returned 1 after the login call.
C21_Witness ==
  /\ main.loop = True
  /\ main.pc = "sleep"
  /\ pc = "done"
  /\ ret = <<1>>
  /\ remote.login = <<[ok |-> TRUE, status |-> 200, setCookie |-> Empty]>>
  /\ Len(calls) = 1

\* The replacement is given as the empty string: as the value of the last
\* --replacement of the command line, or, without that option, as the value
\* of QBT_REPLACEMENT.
EmptyReplacementGiven ==
  IF Given("replacement")
  THEN LET i == CHOOSE j \in 1..Len(argv) :
                  argv[j] = Option("replacement")
                    /\ \A k \in (j + 1)..Len(argv) : argv[k] # Option("replacement")
       IN  i < Len(argv) /\ argv[i + 1] = <<>>
  ELSE env["QBT_REPLACEMENT"] = Str(<<>>)

\* C22: a replacement that is the empty string counts as a missing option:
\* the run makes no network call and returns 2.
C22_EmptyReplacementIsMissing ==
  (main.pc \in {"run", "exit"} /\ EmptyReplacementGiven)
    => (calls = <<>> /\ (pc = "done" => ret = <<2>>))

ConfigError == ~args.help /\ (MissingRequired \/ InvalidPattern)

\* C23: in loop mode a run that returned 1 or 2 is followed, like any
\* other, by the sleep and a new run with the same arguments, and the
\* process never exits; a configuration error therefore returns 2 again in
\* every run.  Only in single-run mode does the process exit, after runOnce
\* returned and with the code it returned.
C23_LoopDiscardsResultCode ==
  /\ [][args' = args /\ main'.loop = main.loop]_vars
  /\ [][(main.loop = True /\ main.pc = "run" /\ pc = "done" /\ main'.pc # "run")
          => (main'.pc = "sleep" /\ ret' = ret)]_vars
  /\ [](main.pc = "exit" => (main.loop # True /\ pc = "done" /\ ret \in {<<0>>, <<1>>, <<2>>}))
  /\ [][main.pc = "exit" => (main'.pc = "exit" /\ ret' = ret)]_vars
  /\ []((pc = "done" /\ ConfigError) => ret = <<2>>)
  /\ (main.loop = True /\ pc = "done" /\ ret \in {<<1>>, <<2>>})
       ~> (main.pc = "run" /\ pc = "validate" /\ calls = <<>>)
  /\ []<>((main.loop = True /\ ConfigError) => (main.pc = "sleep" /\ ret = <<2>>))
  /\ []<>((main.loop = True /\ ConfigError) => (main.pc = "run" /\ pc = "validate"))
  /\ (main.loop # True) ~> (main.pc \in {"exit", "rejected"})

\* C23 witness: a run of the loop returned 2 and main went to sleep.
C23_Witness ==
  /\ main.loop = True
  /\ main.pc = "sleep"
  /\ pc = "done"
  /\ ret = <<2>>
  /\ ConfigError

====
